---- MODULE Spec2Model ----
(***************************************************************************)
(* State-machine model of the interactive widgets of the SCRUM guide:      *)
(*   - SprintBoard      (assets/js/sprint_board_js.js)                     *)
(*   - ContentLoader    (assets/js/content-loader.js)                      *)
(*   - WSJFCalculator   (assets/js/wsjf_calculator_js.js)                  *)
(*   - TabManager       (assets/js/tab_manager_js.js)                      *)
(* Each widget has its own variables and its own specification; the        *)
(* variables of the other widgets stay at their initial values.            *)
(***************************************************************************)
EXTENDS Integers, Sequences, FiniteSets, TLC

VARIABLES
    \* ---- SprintBoard ----
    tasks,              \* this.tasks: sequence of [id, status, sp]
    storage,            \* localStorage entry under config.storageKey
    draggedTask,        \* data-task-id of this.draggedTask, NoTask when null
    metrics,            \* this.metrics: totalSP, completedSP, progressPercentage
    maxTasksPerColumn,  \* config.maxTasksPerColumn, NoLimit when null
    editingTask,        \* this.editingTask, NoTask when null
    modalDisplay,       \* #taskModal style.display
    hideTimers,         \* pending 300 ms timers started by hideTaskModal
    feedback,           \* message of the last showFeedback call
    nextId,             \* ids handed out so far by generateTaskId
    edits,              \* list edits and constructions so far (bounds the run)
    moves,              \* status changes so far (bounds the run)
    submits,            \* accepted form submissions so far (bounds the run)
    detailTask,         \* #taskDetailModal dataset.currentTaskId, NoTask when absent
    detailDisplay,      \* #taskDetailModal style.display
    timerOrder,         \* the pending 300 ms timers, in the order they were started
    opened,             \* history: how the task modal was opened last, if still open
    acted               \* history: what the list operations did since construction

VARIABLES
    \* ---- ContentLoader ----
    files,              \* what the server holds for each section file
    cache,              \* this.cache: Map from section id to fetched content
    currentSection,     \* this.currentSection, NoSection when null
    mainContent,        \* what #main-content shows
    activeLink,         \* the .nav-link that carries the class 'active'
    loading,            \* the loading indicator is displayed
    pending,            \* loadSection calls waiting for their fetch, oldest first
    settled,            \* outcome of the last loadSection promise to settle
    lastClick,          \* history: section of the most recent navigation click
    failed              \* history: a fetch has failed

VARIABLES
    \* ---- WSJFCalculator ----
    values,             \* this.values: businessValue, urgency, riskReduction, effort
    precision,          \* config.precision
    result,             \* the score calculateWSJF reported last, and for which values
    onCalculate,        \* arguments of the last config.onCalculate call
    debounceTimers,     \* pending 300 ms timers started by debouncedCalculate
    displayTimers,      \* scores of the pending 150 ms timers of updateResults
    wsjfResult,         \* the number in #wsjfResult (NaN: the text is no number)
    history,            \* this.history: entries [values, wsjf], newest first
    historyStore,       \* localStorage entry under config.storageKey
    maxHistory,         \* config.maxHistory
    destroyed,          \* destroy() has run
    wsjfError,          \* #calculatorError is displayed
    closest,            \* last getClosestFibonacci probe: argument and result
    changes,            \* value changes and constructions so far (bounds the run)
    saves,              \* saveCalculation calls so far (bounds the run)
    debounceRuns        \* history: calculateWSJF runs of the debounce timer in this burst

VARIABLES
    \* ---- TabManager (tab_manager_js.js) ----
    activeTab,          \* this.activeTab, NoTab when null
    activeButtons,      \* indices of the tab buttons with class 'active'
    activePanels,       \* indices of the tab panels with class 'active'
    loadedTabs,         \* this.loadedTabs
    tabPending,         \* activateTab calls waiting for loadTabContent, oldest first
    tabsLoading,        \* .tabs-loading is displayed
    tabsError,          \* .tabs-error is displayed
    lastActivated,      \* history: index of the last activateTab call for a valid tab
    tabFailed,          \* history: a tab content load has failed
    configTabs,         \* config.tabs: for each tab, whether it has content or a url
    tabOp               \* history: the last of activateTab, addTab, removeTab to run

VARIABLES
    \* ---- TabManager of a tabs container (unnamed/part_007) ----
    activeIndex,        \* this.activeIndex
    selectedTab,        \* the tab button with class 'active', NoTab when none
    contents,           \* style.display and style.opacity of each content panel
    loadedPanels,       \* this.loadedTabs
    dataSrc,            \* the panels whose content has a data-src attribute
    fadeTransition,     \* config.fadeTransition
    activations,        \* activateTab calls waiting for loadTabContent
    fadeIns,            \* panels of the pending 10 ms timers of fadeIn, oldest first
    fadeOuts,           \* panels of the pending 300 ms timers of fadeOut, oldest first
    contentError,       \* the panels that show the error content with its retry button
    shown               \* history: an activation has run showTabContent

VARIABLES
    \* ---- tab switching on the page (tabs.js, unnamed/part_006, main.js) ----
    dataTab,            \* data-tab attribute of each tab button, NoName when absent
    contentId,          \* id of each .tab-content element
    buttonActive,       \* the tab buttons with class 'active'
    buttonSelected,     \* the tab buttons with aria-selected 'true'
    contentActive,      \* the .tab-content elements with class 'active'
    scrumActiveTab      \* this.activeTab of ScrumTabManager, NoName when null

VARIABLES
    \* ---- static sprint board (sprint_board.js, AnimationManager) ----
    cardColumn,         \* data-column of the column each task card is in, Removed when in none
    cardDragging,       \* the task cards with class 'dragging'
    animated,           \* the cards that carry the listeners of AnimationManager
    listeners,          \* which module registered its listeners on the cards first
    dataTransfer,       \* e.dataTransfer of the drag in progress
    progress,           \* the numbers shown in #total-sp, #completed-sp, #progress-percentage
    dropThrew           \* history: the last handleDrop ended with a TypeError

boardVars == <<tasks, storage, draggedTask, metrics, maxTasksPerColumn,
               editingTask, modalDisplay, hideTimers, feedback, nextId, edits, moves, submits, acted,
               detailTask, detailDisplay, timerOrder, opened>>

loaderVars == <<files, cache, currentSection, mainContent, activeLink, loading,
                pending, settled, lastClick, failed>>

wsjfVars == <<values, precision, result, onCalculate, debounceTimers,
              displayTimers, wsjfResult, history, historyStore, maxHistory,
              destroyed, wsjfError, closest, changes, saves, debounceRuns>>

tabVars == <<activeTab, activeButtons, activePanels, loadedTabs, tabPending,
             tabsLoading, tabsError, lastActivated, tabFailed, configTabs,
             tabOp>>

containerVars == <<activeIndex, selectedTab, contents, loadedPanels, dataSrc,
                   fadeTransition, activations, fadeIns, fadeOuts,
                   contentError, shown>>

pageVars == <<dataTab, contentId, buttonActive, buttonSelected, contentActive,
              scrumActiveTab>>

staticVars == <<cardColumn, cardDragging, animated, listeners, dataTransfer,
                progress, dropThrew>>

vars == <<boardVars, loaderVars, wsjfVars, tabVars, containerVars, pageVars,
          staticVars>>

\* what the handlers of one widget leave alone: the other widgets
notBoard == <<loaderVars, wsjfVars, tabVars, containerVars,
    pageVars, staticVars>>
notLoader == <<boardVars, wsjfVars, tabVars, containerVars,
    pageVars, staticVars>>
notWsjf == <<boardVars, loaderVars, tabVars, containerVars,
    pageVars, staticVars>>
notTabs == <<boardVars, loaderVars, wsjfVars, containerVars,
    pageVars, staticVars>>
notContainer == <<boardVars, loaderVars, wsjfVars, tabVars, pageVars, staticVars>>
notPage == <<boardVars, loaderVars, wsjfVars, tabVars, containerVars,
            staticVars>>
notStatic == <<boardVars, loaderVars, wsjfVars, tabVars, containerVars,
              pageVars>>

(***************************************************************************)
(* Numbers as JavaScript sees them: integers, NaN (parseInt of a field     *)
(* that is not a number) and null (what JSON.stringify writes for NaN).    *)
(***************************************************************************)
NaN == -1
Null == -2

\* a + b of JavaScript: null counts as 0, NaN is absorbing
JsAdd(a, b) ==
    IF a = NaN \/ b = NaN THEN NaN
    ELSE (IF a = Null THEN 0 ELSE a) + (IF b = Null THEN 0 ELSE b)

\* a < b of JavaScript: false as soon as one side is NaN, null counts as 0
JsLess(a, b) ==
    /\ a # NaN
    /\ b # NaN
    /\ (IF a = Null THEN 0 ELSE a) < (IF b = Null THEN 0 ELSE b)

(***************************************************************************)
(* Bounds of the model                                                     *)
(***************************************************************************)
MaxEdits == 1        \* creations, updates, deletions, resets and reloads in one run
MaxMoves == 2        \* status changes (drops and moveTask calls) in one run
ColumnLimit == 2     \* the configured maxTasksPerColumn, when one is configured
MaxSubmits == 1      \* accepted form submissions in one run
MaxTimers == 2       \* pending hideTaskModal timers
MaxDetailTimers == 2 \* pending timers of hideTaskDetailModal and editCurrentTask
MaxPending == 2      \* loadSection calls waiting for a fetch at one time
MaxPrecision == 2    \* largest config.precision of the model
MaxRaw == 22         \* largest raw value handed to setValues
MaxDisplayTimers == 2 \* pending 150 ms timers of updateResults
MaxHistory == 2      \* largest config.maxHistory of the model
MaxChanges == 2      \* slider, marker, reset and restore events in one run
MaxSaves == 2        \* saveCalculation calls in one run
MaxProbe == 60       \* getClosestFibonacci is probed on -MaxProbe..MaxProbe
NumTabs == 3         \* config.tabs.length
MaxTabPending == 2   \* activateTab calls waiting for their content at one time
MaxTabCount == 4     \* largest config.tabs.length addTab may reach
NumContainers == 2   \* .example-container elements of the page
NumSlots == 2        \* tab buttons, and tab contents, of each container
NumCards == 3        \* task cards of the static sprint board
MaxFades == 2        \* pending fade-in timers, and pending fade-out timers
MaxActivations == 1  \* container activateTab calls waiting for a fetch at one time

NoTask == 0
NoLimit == 0
\* localStorage.getItem gives null: nothing is stored under the key
NoEntry == [present |-> FALSE, tasks |-> <<>>]

Columns == <<"backlog", "progress", "review", "done">>
ColumnIds == {Columns[i] : i \in 1..Len(Columns)}


(***************************************************************************)
(* SprintBoard: helpers                                                    *)
(***************************************************************************)
\* loadDefaultTasks: five tasks with fresh ids (generateTaskId)
DefaultTasks(n) ==
    << [id |-> n + 1, status |-> "backlog",  sp |-> 8],
       [id |-> n + 2, status |-> "backlog",  sp |-> 5],
       [id |-> n + 3, status |-> "progress", sp |-> 3],
       [id |-> n + 4, status |-> "review",   sp |-> 2],
       [id |-> n + 5, status |-> "done",     sp |-> 3] >>

\* JSON.stringify of the task list: a NaN number is written as null
JsonStringify(ts) ==
    [i \in 1..Len(ts) |->
        [ts[i] EXCEPT !.sp = IF ts[i].sp = NaN THEN Null ELSE ts[i].sp]]

\* JSON.parse of a stored entry gives back what was written
JsonParse(stored) == stored.tasks

\* loadData: the stored list, or the default tasks when nothing is stored
LoadData(stored, n) ==
    IF stored.present THEN JsonParse(stored) ELSE DefaultTasks(n)

\* ids consumed by loadData
LoadIds(stored) == IF stored.present THEN 0 ELSE Len(DefaultTasks(0))

\* saveData: writes the serialised list (config.autoSave is on)
SaveData(ts) == [present |-> TRUE, tasks |-> JsonStringify(ts)]

\* findTaskById: index of the first task with this id, 0 when there is none
FindTaskById(ts, taskId) ==
    IF \E i \in 1..Len(ts) : ts[i].id = taskId
    THEN CHOOSE i \in 1..Len(ts) :
            /\ ts[i].id = taskId
            /\ \A j \in 1..(i - 1) : ts[j].id # taskId
    ELSE 0

\* tasks.filter(t => t.status === columnId)
TasksInColumn(ts, col) == SelectSeq(ts, LAMBDA t : t.status = col)

\* tasks.reduce((sum, task) => sum + task.storyPoints, 0)
RECURSIVE SumSP(_)
SumSP(ts) ==
    IF ts = <<>> THEN 0
    ELSE JsAdd(SumSP(SubSeq(ts, 1, Len(ts) - 1)), ts[Len(ts)].sp)

\* Math.round((completedSP / totalSP) * 100) in IEEE doubles: the exact
\* rounding, except that 0.575 * 100 evaluates to 57.49999999999999
RoundPct(c, t) ==
    IF 40 * c = 23 * t THEN 57 ELSE (200 * c + t) \div (2 * t)

\* updateMetrics (config.showMetrics is on)
UpdateMetrics(ts) ==
    LET total == SumSP(ts)
        completed == SumSP(TasksInColumn(ts, "done"))
    IN  [totalSP |-> total,
         completedSP |-> completed,
         progressPercentage |->
            IF JsLess(0, total) THEN RoundPct(completed, total) ELSE 0]

\* the cards updateColumns renders: the tasks whose status is a column
Rendered(ts) ==
    {ts[i].id : i \in {j \in 1..Len(ts) : ts[j].status \in ColumnIds}}


\* values a caller passes as storyPoints to createTask / updateTask
SPInputs == {1, 21, NaN}

\* task ids a caller passes: every id handed out so far and an unknown one
TaskIdInputs == 1..(nextId + 1)

\* a list operation that found nothing to do
NoEffect(a) == IF a = "effect" THEN "effect" ELSE "noop"

\* status values a caller passes to moveTask: moveTask takes any string, so
\* the column ids and one string that is no column id
StatusInputs == ColumnIds \cup {"archived"}

\* the number the column counters show in total (updateColumns)
RECURSIVE CounterSum(_, _)
CounterSum(ts, k) ==
    IF k = 0 THEN 0
    ELSE CounterSum(ts, k - 1) + Len(TasksInColumn(ts, Columns[k]))

\* createTask: the list with the new task pushed, in 'backlog'
CreatedTasks(ts, newId, sp) ==
    Append(ts, [id |-> newId, status |-> "backlog", sp |-> sp])

\* updateTask: Object.assign(task, taskData) on the task at index i
UpdatedTasks(ts, i, sp) == [ts EXCEPT ![i].sp = sp]

\* deleteTask: tasks.splice(taskIndex, 1)
DeletedTasks(ts, i) == SubSeq(ts, 1, i - 1) \o SubSeq(ts, i + 1, Len(ts))

\* mutant of MovedTasks: the task is taken out and pushed again at the end
MovedTasksToEnd(ts, i, col) ==
    Append(SubSeq(ts, 1, i - 1) \o SubSeq(ts, i + 1, Len(ts)),
           [ts[i] EXCEPT !.status = col])

\* task.status = targetColumnId on the task at index i
MovedTasks(ts, i, col) == [ts EXCEPT ![i].status = col]

\* the column check of handleDrop
ColumnFull(ts, col, limit) ==
    limit # NoLimit /\ Len(TasksInColumn(ts, col)) >= limit

\* updateColumns(); updateMetrics(); saveData() after a change of the list
Refresh(ts) ==
    /\ tasks' = ts
    /\ metrics' = UpdateMetrics(ts)
    /\ storage' = SaveData(ts)

detailVars == <<detailTask, detailDisplay>>

modalVars == <<editingTask, modalDisplay, hideTimers, submits, detailVars,
               timerOrder, opened>>

\* the task modal is not open, as far as the user's actions go
NotOpened == [open |-> FALSE, id |-> NoTask]

\* the 300 ms timers: the one hideTaskModal starts, the one
\* hideTaskDetailModal starts, and the one editCurrentTask starts
HideTimer == [kind |-> "hideTaskModal", id |-> NoTask]
DetailTimer == [kind |-> "hideTaskDetailModal", id |-> NoTask]
EditTimer(taskId) == [kind |-> "editCurrentTask", id |-> taskId]

\* timers of equal delay fire in the order they were started
NextTimerIs(kind) == timerOrder # <<>> /\ Head(timerOrder).kind = kind

(***************************************************************************)
(* SprintBoard: handlers                                                   *)
(***************************************************************************)
HandleDragStart(taskId) ==
    /\ UNCHANGED notBoard
    /\ taskId \in Rendered(tasks)
    /\ draggedTask' = taskId
    /\ UNCHANGED <<tasks, storage, metrics, maxTasksPerColumn, modalVars,
                   feedback, nextId, edits, moves, acted>>

HandleDragEnd ==
    /\ UNCHANGED notBoard
    /\ draggedTask # NoTask
    /\ draggedTask' = NoTask
    /\ UNCHANGED <<tasks, storage, metrics, maxTasksPerColumn, modalVars,
                   feedback, nextId, edits, moves, acted>>

HandleDrop(col) ==
    LET i == FindTaskById(tasks, draggedTask) IN
    /\ UNCHANGED notBoard
    /\ col \in ColumnIds
    /\ UNCHANGED <<draggedTask, maxTasksPerColumn, modalVars, nextId, edits>>
    /\ IF draggedTask = NoTask \/ i = 0 \/ tasks[i].status = col
       THEN UNCHANGED <<tasks, storage, metrics, feedback, moves, acted>>
       ELSE IF ColumnFull(tasks, col, maxTasksPerColumn)
       THEN /\ feedback' = "Columna llena"
            /\ UNCHANGED <<tasks, storage, metrics, moves, acted>>
       ELSE /\ moves < MaxMoves
            /\ Refresh(MovedTasks(tasks, i, col))
            /\ feedback' = "movida"
            /\ moves' = moves + 1
            /\ acted' = "effect"

\* mutant of MoveTask: the call to saveData is missing
MoveTaskNoSave(taskId, newStatus) ==
    LET i == FindTaskById(tasks, taskId) IN
    /\ UNCHANGED notBoard
    /\ taskId \in TaskIdInputs
    /\ newStatus \in StatusInputs
    /\ UNCHANGED <<draggedTask, maxTasksPerColumn, modalVars, feedback,
                   nextId, edits>>
    /\ IF i = 0
       THEN /\ acted' = NoEffect(acted)
            /\ UNCHANGED <<tasks, storage, metrics, moves>>
       ELSE /\ moves < MaxMoves
            /\ tasks' = MovedTasks(tasks, i, newStatus)
            /\ metrics' = UpdateMetrics(MovedTasks(tasks, i, newStatus))
            /\ UNCHANGED storage
            /\ moves' = moves + 1
            /\ acted' = "effect"

MoveTask(taskId, newStatus) ==
    LET i == FindTaskById(tasks, taskId) IN
    /\ UNCHANGED notBoard
    /\ taskId \in TaskIdInputs
    /\ newStatus \in StatusInputs
    /\ UNCHANGED <<draggedTask, maxTasksPerColumn, modalVars, feedback,
                   nextId, edits>>
    /\ IF i = 0
       THEN /\ acted' = NoEffect(acted)
            /\ UNCHANGED <<tasks, storage, metrics, moves>>
       ELSE /\ moves < MaxMoves
            /\ Refresh(MovedTasks(tasks, i, newStatus))
            /\ moves' = moves + 1
            /\ acted' = "effect"

CreateTask(sp) ==
    /\ UNCHANGED notBoard
    /\ edits < MaxEdits
    /\ sp \in SPInputs
    /\ Refresh(CreatedTasks(tasks, nextId + 1, sp))
    /\ nextId' = nextId + 1
    /\ edits' = edits + 1
    /\ acted' = "effect"
    /\ UNCHANGED <<draggedTask, maxTasksPerColumn, modalVars, feedback, moves>>

\* updateTask of a task that exists (it throws for an unknown id)
UpdateTask(taskId, sp) ==
    LET i == FindTaskById(tasks, taskId) IN
    /\ UNCHANGED notBoard
    /\ edits < MaxEdits
    /\ sp \in SPInputs
    /\ i # 0
    /\ Refresh(UpdatedTasks(tasks, i, sp))
    /\ edits' = edits + 1
    /\ acted' = "effect"
    /\ UNCHANGED <<draggedTask, maxTasksPerColumn, modalVars, feedback, nextId, moves>>

DeleteTask(taskId) ==
    LET i == FindTaskById(tasks, taskId) IN
    /\ UNCHANGED notBoard
    /\ taskId \in TaskIdInputs
    /\ UNCHANGED <<draggedTask, maxTasksPerColumn, modalVars, feedback, nextId, moves>>
    /\ IF i = 0
       THEN /\ acted' = NoEffect(acted)
            /\ UNCHANGED <<tasks, storage, metrics, edits>>
       ELSE /\ edits < MaxEdits
            /\ edits' = edits + 1
            /\ acted' = "effect"
            /\ Refresh(DeletedTasks(tasks, i))

\* resetBoard, confirmed
ResetBoard ==
    /\ UNCHANGED notBoard
    /\ edits < MaxEdits
    /\ Refresh(DefaultTasks(nextId))
    /\ nextId' = nextId + Len(DefaultTasks(nextId))
    /\ feedback' = "Board reseteado"
    /\ edits' = edits + 1
    /\ acted' = "effect"
    /\ UNCHANGED <<draggedTask, maxTasksPerColumn, modalVars, moves>>

\* a new SprintBoard on the same storageKey (the page is loaded again)
Construct ==
    /\ UNCHANGED notBoard
    /\ edits < MaxEdits
    /\ tasks' = LoadData(storage, nextId)
    /\ nextId' = nextId + LoadIds(storage)
    /\ metrics' = UpdateMetrics(LoadData(storage, nextId))
    /\ draggedTask' = NoTask
    /\ editingTask' = NoTask
    /\ modalDisplay' = "none"
    /\ hideTimers' = 0
    /\ detailTask' = NoTask
    /\ detailDisplay' = "none"
    /\ timerOrder' = <<>>
    /\ opened' = NotOpened
    /\ UNCHANGED submits
    /\ feedback' = "none"
    /\ edits' = edits + 1
    /\ acted' = "none"
    /\ UNCHANGED <<storage, maxTasksPerColumn, moves>>

(***************************************************************************)
(* SprintBoard: the task form                                              *)
(***************************************************************************)
\* what the user typed into #taskTitle, and String.prototype.trim of it
TitleInputs == {"", "  ", "Tarea"}
Trim(title) == IF title = "  " THEN "" ELSE title

\* parseInt of what the user typed into #taskStoryPoints
FormSPInputs == {0, 1, 21, 22, NaN}

\* the range check of handleTaskSubmit: sp < 1 || sp > 21
OutOfRange(sp) == JsLess(sp, 1) \/ JsLess(21, sp)

\* the body of showTaskModal(taskId): editingTask is assigned before the
\* task is looked up, the modal is displayed when the task exists
OpenTaskModal(taskId) ==
    /\ editingTask' = taskId
    /\ IF taskId # NoTask /\ FindTaskById(tasks, taskId) = 0
       THEN UNCHANGED <<modalDisplay, opened>>
       ELSE /\ modalDisplay' = "flex"
            /\ opened' = [open |-> TRUE, id |-> taskId]

\* showTaskModal(taskId); taskId is NoTask for a creation
ShowTaskModal(taskId) ==
    /\ UNCHANGED notBoard
    /\ taskId \in {NoTask} \cup (1..nextId)
    /\ OpenTaskModal(taskId)
    /\ UNCHANGED <<tasks, storage, draggedTask, metrics, maxTasksPerColumn,
                   hideTimers, feedback, nextId, edits, moves, submits, acted,
                   detailVars, timerOrder>>

\* hideTaskModal: the modal is hidden by a timer 300 ms later
HideTaskModal ==
    /\ UNCHANGED notBoard
    /\ modalDisplay = "flex"
    /\ hideTimers < MaxTimers
    /\ hideTimers' = hideTimers + 1
    /\ timerOrder' = Append(timerOrder, HideTimer)
    /\ opened' = NotOpened
    /\ UNCHANGED <<tasks, storage, draggedTask, metrics, maxTasksPerColumn,
                   editingTask, modalDisplay, feedback, nextId, edits, moves,
                   submits, acted, detailVars>>

\* the timer of hideTaskModal fires
HideTimerFires ==
    /\ UNCHANGED notBoard
    /\ hideTimers > 0
    /\ NextTimerIs("hideTaskModal")
    /\ timerOrder' = Tail(timerOrder)
    /\ hideTimers' = hideTimers - 1
    /\ modalDisplay' = "none"
    /\ editingTask' = NoTask
    /\ UNCHANGED <<tasks, storage, draggedTask, metrics, maxTasksPerColumn,
                   feedback, nextId, edits, moves, submits, acted, detailVars,
                   opened>>

\* handleTaskSubmit with the form's title and story-points fields
HandleTaskSubmit(title, sp) ==
    LET i == FindTaskById(tasks, editingTask) IN
    /\ UNCHANGED notBoard
    /\ modalDisplay = "flex"
    /\ title \in TitleInputs
    /\ sp \in FormSPInputs
    /\ UNCHANGED <<draggedTask, maxTasksPerColumn, editingTask, modalDisplay,
                   edits, moves, detailVars>>
    /\ IF Trim(title) = ""
       THEN /\ feedback' = "El titulo es obligatorio"
            /\ UNCHANGED <<tasks, storage, metrics, hideTimers, nextId, submits,
                           acted, timerOrder, opened>>
       ELSE IF OutOfRange(sp)
       THEN /\ feedback' = "Story Points debe estar entre 1 y 21"
            /\ UNCHANGED <<tasks, storage, metrics, hideTimers, nextId, submits,
                           acted, timerOrder, opened>>
       ELSE IF editingTask # NoTask /\ i = 0
       THEN /\ feedback' = "Error al guardar tarea"
            /\ UNCHANGED <<tasks, storage, metrics, hideTimers, nextId, submits,
                           acted, timerOrder, opened>>
       ELSE /\ submits < MaxSubmits
            /\ hideTimers < MaxTimers
            /\ submits' = submits + 1
            /\ acted' = "effect"
            /\ hideTimers' = hideTimers + 1
            /\ timerOrder' = Append(timerOrder, HideTimer)
            /\ opened' = NotOpened
            /\ IF editingTask # NoTask
               THEN /\ Refresh(UpdatedTasks(tasks, i, sp))
                    /\ feedback' = "Tarea actualizada"
                    /\ UNCHANGED nextId
               ELSE /\ Refresh(CreatedTasks(tasks, nextId + 1, sp))
                    /\ feedback' = "Tarea creada"
                    /\ nextId' = nextId + 1

\* what the task and detail modals leave alone: the list and its metrics
listVars == <<tasks, storage, draggedTask, metrics, maxTasksPerColumn, feedback,
              nextId, edits, moves, submits, acted>>

\* the 300 ms timers of the detail modal that are pending
DetailTimersPending == Len(timerOrder) - hideTimers

\* showTaskDetail(taskId): a click on a task card
ShowTaskDetail(taskId) ==
    /\ UNCHANGED notBoard
    /\ taskId \in 1..nextId
    /\ IF FindTaskById(tasks, taskId) = 0
       THEN UNCHANGED detailVars
       ELSE /\ detailDisplay' = "flex"
            /\ detailTask' = taskId
    /\ UNCHANGED <<listVars, editingTask, modalDisplay, hideTimers, timerOrder,
                   opened>>

\* hideTaskDetailModal: the detail modal is hidden by a timer 300 ms later
HideTaskDetailModal ==
    /\ UNCHANGED notBoard
    /\ detailDisplay = "flex"
    /\ DetailTimersPending < MaxDetailTimers
    /\ timerOrder' = Append(timerOrder, DetailTimer)
    /\ UNCHANGED <<listVars, editingTask, modalDisplay, hideTimers, detailVars,
                   opened>>

\* the timer of hideTaskDetailModal fires
DetailTimerFires ==
    /\ UNCHANGED notBoard
    /\ NextTimerIs("hideTaskDetailModal")
    /\ timerOrder' = Tail(timerOrder)
    /\ detailDisplay' = "none"
    /\ detailTask' = NoTask
    /\ UNCHANGED <<listVars, editingTask, modalDisplay, hideTimers, opened>>

\* editCurrentTask: hideTaskDetailModal(), and showTaskModal(taskId) by a
\* timer 300 ms later
EditCurrentTask ==
    /\ UNCHANGED notBoard
    /\ detailDisplay = "flex"
    /\ IF detailTask = NoTask
       THEN UNCHANGED timerOrder
       ELSE /\ DetailTimersPending + 2 <= MaxDetailTimers
            /\ timerOrder' = timerOrder \o <<DetailTimer, EditTimer(detailTask)>>
    /\ UNCHANGED <<listVars, editingTask, modalDisplay, hideTimers, detailVars,
                   opened>>

\* the timer of editCurrentTask fires: showTaskModal(taskId)
EditTimerFires ==
    /\ UNCHANGED notBoard
    /\ NextTimerIs("editCurrentTask")
    /\ timerOrder' = Tail(timerOrder)
    /\ OpenTaskModal(Head(timerOrder).id)
    /\ UNCHANGED <<listVars, hideTimers, detailVars>>

BoardInit ==
    /\ storage = NoEntry
    /\ tasks = LoadData(NoEntry, 0)
    /\ nextId = LoadIds(NoEntry)
    /\ metrics = UpdateMetrics(LoadData(NoEntry, 0))
    /\ draggedTask = NoTask
    /\ maxTasksPerColumn \in {NoLimit, ColumnLimit}
    /\ editingTask = NoTask
    /\ modalDisplay = "none"
    /\ hideTimers = 0
    /\ detailTask = NoTask
    /\ detailDisplay = "none"
    /\ timerOrder = <<>>
    /\ opened = NotOpened
    /\ feedback = "none"
    /\ edits = 0
    /\ submits = 0
    /\ moves = 0
    /\ acted = "none"

NextBoard ==
    \/ \E id \in 1..nextId : HandleDragStart(id)
    \/ HandleDragEnd
    \/ \E c \in ColumnIds : HandleDrop(c)
    \/ \E id \in TaskIdInputs, c \in StatusInputs : MoveTask(id, c)
    \/ \E sp \in SPInputs : CreateTask(sp)
    \/ \E id \in 1..nextId, sp \in SPInputs : UpdateTask(id, sp)
    \/ \E id \in TaskIdInputs : DeleteTask(id)
    \/ ResetBoard
    \/ Construct

(***************************************************************************)
(* ContentLoader                                                           *)
(***************************************************************************)
\* the configured sections the model navigates between
Sections == {"scrum-foundations", "estimacion-agil"}
NoSection == "null"

\* what a section file may hold: nothing at all, or markup
Contents == {"", "<h2>...</h2>"}

\* Map.get(sectionId) of a Map without the key gives undefined
NoCacheEntry == [has |-> FALSE, content |-> ""]

\* let content = this.cache.get(sectionId); if (!content) ...: the entry is
\* missing, or it is the empty string
CacheMiss(c, s) == ~c[s].has \/ c[s].content = ""

\* renderSection: #main-content holds the section wrapper with the content
RenderedSection(s, content) ==
    [kind |-> "section", section |-> s, content |-> content]

\* showError: #main-content holds the error panel
ErrorPanel == [kind |-> "error", section |-> NoSection, content |-> ""]

\* the page before any section is loaded
InitialPage == [kind |-> "initial", section |-> NoSection, content |-> ""]

\* updateActiveNavigation(link) of the click handler, after its await
ActiveAfter(call, link) == IF call.fromClick THEN call.section ELSE link

\* the sequence q without its k-th element
RemoveAt(q, k) == SubSeq(q, 1, k - 1) \o SubSeq(q, k + 1, Len(q))

\* loadSection(s), called from the click handler or directly
StartLoad(s, fromClick) ==
    IF CacheMiss(cache, s)
    THEN \* showLoading(); the call waits in fetchSectionContent
         /\ Len(pending) < MaxPending
         /\ pending' = Append(pending, [section |-> s, fromClick |-> fromClick])
         /\ loading' = TRUE
         /\ UNCHANGED <<cache, currentSection, mainContent, activeLink, settled>>
    ELSE \* cached: rendered without a fetch, then the handler continues
         /\ mainContent' = RenderedSection(s, cache[s].content)
         /\ currentSection' = s
         /\ loading' = FALSE
         /\ activeLink' = IF fromClick THEN s ELSE activeLink
         /\ settled' = "fulfilled"
         /\ UNCHANGED <<cache, pending>>

\* a click on the navigation link of section s
NavClick(s) ==
    /\ UNCHANGED notLoader
    /\ s \in Sections
    /\ lastClick' = s
    /\ UNCHANGED <<files, failed>>
    /\ IF s # currentSection
       THEN StartLoad(s, TRUE)
       ELSE UNCHANGED <<cache, currentSection, mainContent, activeLink,
                        loading, pending, settled>>

\* contentLoader.loadSection(s) called directly
LoadSection(s) ==
    /\ UNCHANGED notLoader
    /\ s \in Sections
    /\ StartLoad(s, FALSE)
    /\ UNCHANGED <<files, lastClick, failed>>

\* the fetch of the k-th waiting call succeeds
FetchSucceeds(k) ==
    LET call == pending[k]
        content == files[call.section] IN
    /\ UNCHANGED notLoader
    /\ k \in 1..Len(pending)
    /\ cache' = [cache EXCEPT ![call.section] =
                    [has |-> TRUE, content |-> content]]
    /\ mainContent' = RenderedSection(call.section, content)
    /\ currentSection' = call.section
    /\ loading' = FALSE
    /\ activeLink' = ActiveAfter(call, activeLink)
    /\ settled' = "fulfilled"
    /\ pending' = RemoveAt(pending, k)
    /\ UNCHANGED <<files, lastClick, failed>>

\* mutant of FetchFails: the failed section becomes the current one
FetchFailsSetsCurrent(k) ==
    LET call == pending[k] IN
    /\ UNCHANGED notLoader
    /\ k \in 1..Len(pending)
    /\ mainContent' = ErrorPanel
    /\ loading' = FALSE
    /\ activeLink' = ActiveAfter(call, activeLink)
    /\ settled' = "fulfilled"
    /\ pending' = RemoveAt(pending, k)
    /\ failed' = TRUE
    /\ currentSection' = call.section
    /\ UNCHANGED <<files, cache, lastClick>>

\* the fetch of the k-th waiting call fails: network error or HTTP status
FetchFails(k) ==
    LET call == pending[k] IN
    /\ UNCHANGED notLoader
    /\ k \in 1..Len(pending)
    /\ mainContent' = ErrorPanel
    /\ loading' = FALSE
    /\ activeLink' = ActiveAfter(call, activeLink)
    /\ settled' = "fulfilled"
    /\ pending' = RemoveAt(pending, k)
    /\ failed' = TRUE
    /\ UNCHANGED <<files, cache, currentSection, lastClick>>

\* clearCache
ClearCache ==
    /\ UNCHANGED notLoader
    /\ cache' = [s \in Sections |-> NoCacheEntry]
    /\ UNCHANGED <<files, currentSection, mainContent, activeLink, loading,
                   pending, settled, lastClick, failed>>

\* the loader after construction, for one content of the section files
LoaderStart(f) ==
    /\ files = f
    /\ cache = [s \in Sections |-> NoCacheEntry]
    /\ currentSection = NoSection
    /\ mainContent = InitialPage
    /\ activeLink = NoSection
    /\ loading = FALSE
    /\ pending = <<>>
    /\ settled = "none"
    /\ lastClick = NoSection
    /\ failed = FALSE

LoaderIdle == LoaderStart([s \in Sections |-> "<h2>...</h2>"])

(***************************************************************************)
(* WSJFCalculator                                                          *)
(***************************************************************************)
fibonacciScale == <<1, 2, 3, 5, 8, 13, 21>>

Abs(x) == IF x < 0 THEN -x ELSE x

\* mutant of ClosestFrom: a later member wins when it is as close
RECURSIVE ClosestFromLast(_, _, _)
ClosestFromLast(value, prev, k) ==
    IF k > Len(fibonacciScale) THEN prev
    ELSE ClosestFromLast(value,
                         IF Abs(fibonacciScale[k] - value) <= Abs(prev - value)
                         THEN fibonacciScale[k] ELSE prev,
                         k + 1)

\* getClosestFibonacci: reduce over the scale, a later member wins only
\* when it is strictly closer
RECURSIVE ClosestFrom(_, _, _)
ClosestFrom(value, prev, k) ==
    IF k > Len(fibonacciScale) THEN prev
    ELSE ClosestFrom(value,
                     IF Abs(fibonacciScale[k] - value) < Abs(prev - value)
                     THEN fibonacciScale[k] ELSE prev,
                     k + 1)

\* mutant of GetClosestFibonacci: the value is stored as it comes
GetClosestFibonacciRaw(value) == value

GetClosestFibonacci(value) == ClosestFrom(value, fibonacciScale[1], 2)

ScaleMembers == {fibonacciScale[k] : k \in 1..Len(fibonacciScale)}

\* mutant of ToFixed: the digits are cut off instead of rounded
ToFixedTruncating(numerator, effort, digits) ==
    (10 ^ digits * numerator) \div effort

\* parseFloat((numerator / effort).toFixed(digits)), in units of 10^-digits:
\* the nearest such multiple, the larger one when two are equally near
ToFixed(numerator, effort, digits) ==
    (2 * 10 ^ digits * numerator + effort) \div (2 * effort)

\* the score calculateWSJF computes from this.values
Score(v, digits) ==
    ToFixed(v.businessValue + v.urgency + v.riskReduction, v.effort, digits)

Parameters == {"businessValue", "urgency", "riskReduction", "effort"}

DefaultValues ==
    [businessValue |-> 8, urgency |-> 5, riskReduction |-> 3, effort |-> 8]

\* what calculateWSJF writes
calcVars == <<result, onCalculate, displayTimers, wsjfError>>

\* what the timers, the history and the probes are made of
timerVars == <<debounceTimers, debounceRuns>>
historyVars == <<history, historyStore, maxHistory, saves>>

\* the body of calculateWSJF for this.values = v: with effort 0 the error is
\* shown; otherwise the score goes to updateResults, which shows it 150 ms
\* later, and to onCalculate
Calculate(v) ==
    IF v.effort = 0
    THEN /\ wsjfError' = TRUE
         /\ UNCHANGED <<result, onCalculate, displayTimers>>
    ELSE /\ Len(displayTimers) < MaxDisplayTimers
         /\ result' = [score |-> Score(v, precision), values |-> v]
         /\ onCalculate' = [score |-> Score(v, precision), values |-> v]
         /\ displayTimers' = Append(displayTimers, Score(v, precision))
         /\ UNCHANGED wsjfError

\* calculateWSJF: reports the score and hands it to onCalculate
CalculateWSJF ==
    /\ UNCHANGED notWsjf
    /\ Calculate(values)
    /\ UNCHANGED <<values, precision, timerVars, wsjfResult, historyVars,
                   destroyed, closest, changes>>

\* setValues({key: raw}): the closest scale member is stored, then
\* calculateWSJF runs
SetValues(key, raw) ==
    LET v == [values EXCEPT ![key] = GetClosestFibonacci(raw)] IN
    /\ UNCHANGED notWsjf
    /\ key \in Parameters
    /\ raw \in 0..MaxRaw
    /\ values' = v
    /\ Calculate(v)
    /\ UNCHANGED <<precision, timerVars, wsjfResult, historyVars, destroyed,
                   closest, changes>>

\* the 150 ms timer of updateResults fires: the score becomes the text
DisplayTimerFires ==
    /\ UNCHANGED notWsjf
    /\ displayTimers # <<>>
    /\ wsjfResult' = Head(displayTimers)
    /\ displayTimers' = Tail(displayTimers)
    /\ UNCHANGED <<values, precision, result, onCalculate, timerVars,
                   historyVars, destroyed, wsjfError, closest, changes>>

\* clearTimeout(this.debounceTimeout): the timer the handle names, if it is
\* still pending, is removed
ClearTimeout(n) == IF n > 0 THEN n - 1 ELSE 0

\* the body of handleSliderChange for the slider 'key' holding 'raw':
\* the closest scale member is stored and the calculation is debounced
SliderChanged(key, raw) ==
    /\ changes < MaxChanges
    /\ changes' = changes + 1
    /\ values' = [values EXCEPT ![key] = GetClosestFibonacci(raw)]
    /\ debounceTimers' = ClearTimeout(debounceTimers) + 1
    /\ debounceRuns' = IF debounceTimers > 0 THEN debounceRuns ELSE 0
    /\ UNCHANGED <<precision, calcVars, wsjfResult, historyVars, destroyed,
                   closest>>

\* an input or change event of a slider; destroy removes these listeners
HandleSliderChange(key, raw) ==
    /\ UNCHANGED notWsjf
    /\ ~destroyed
    /\ SliderChanged(key, raw)

\* a click on the Fibonacci marker 'mark' of a slider; the markers'
\* listeners are not among those destroy removes
MarkerClick(key, mark) ==
    /\ UNCHANGED notWsjf
    /\ \E k \in 1..Len(fibonacciScale) : fibonacciScale[k] = mark
    /\ SliderChanged(key, mark)

\* the debounce timer fires: calculateWSJF
DebounceFires ==
    /\ UNCHANGED notWsjf
    /\ debounceTimers > 0
    /\ debounceTimers' = debounceTimers - 1
    /\ debounceRuns' = debounceRuns + 1
    /\ Calculate(values)
    /\ UNCHANGED <<values, precision, wsjfResult, historyVars, destroyed,
                   closest, changes>>

\* resetValues
ResetValues ==
    /\ UNCHANGED notWsjf
    /\ ~destroyed
    /\ changes < MaxChanges
    /\ changes' = changes + 1
    /\ values' = DefaultValues
    /\ Calculate(DefaultValues)
    /\ UNCHANGED <<precision, timerVars, wsjfResult, historyVars, destroyed,
                   closest>>

\* JSON.stringify of the history: a NaN wsjf is written as null
StringifyHistory(h) ==
    [i \in 1..Len(h) |->
        [h[i] EXCEPT !.wsjf = IF h[i].wsjf = NaN THEN Null ELSE h[i].wsjf]]

\* saveHistory
SaveHistory(h) == [present |-> TRUE, entries |-> StringifyHistory(h)]

\* loadHistory: the stored list as it is, or [] when nothing is stored
LoadHistory(stored) == IF stored.present THEN stored.entries ELSE <<>>

\* history.slice(0, maxHistory) when the list has grown beyond maxHistory
Truncated(h, n) == IF Len(h) > n THEN SubSeq(h, 1, n) ELSE h

\* saveCalculation: the entry pairs a copy of this.values with the number
\* parsed from the text of #wsjfResult; its id (Date.now()) grows from save
\* to save
SaveCalculation ==
    LET entry == [id |-> saves + 1, values |-> values, wsjf |-> wsjfResult]
        h == Truncated(<<entry>> \o history, maxHistory) IN
    /\ UNCHANGED notWsjf
    /\ ~destroyed
    /\ saves < MaxSaves
    /\ saves' = saves + 1
    /\ history' = h
    /\ historyStore' = SaveHistory(h)
    /\ UNCHANGED <<values, precision, calcVars, timerVars, wsjfResult,
                   maxHistory, destroyed, closest, changes>>

\* clearHistory, confirmed
ClearHistory ==
    /\ UNCHANGED notWsjf
    /\ ~destroyed
    /\ history' = <<>>
    /\ historyStore' = SaveHistory(<<>>)
    /\ UNCHANGED <<values, precision, calcVars, timerVars, wsjfResult,
                   maxHistory, destroyed, closest, changes, saves>>

\* loadCalculation(history[k]): a click on the k-th history item
LoadCalculation(k) ==
    /\ UNCHANGED notWsjf
    /\ k \in 1..Len(history)
    /\ changes < MaxChanges
    /\ changes' = changes + 1
    /\ values' = history[k].values
    /\ Calculate(history[k].values)
    /\ UNCHANGED <<precision, timerVars, wsjfResult, historyVars, destroyed,
                   closest>>

\* destroy
Destroy ==
    /\ UNCHANGED notWsjf
    /\ ~destroyed
    /\ destroyed' = TRUE
    /\ debounceTimers' = ClearTimeout(debounceTimers)
    /\ history' = <<>>
    /\ UNCHANGED <<values, precision, calcVars, wsjfResult, historyStore,
                   maxHistory, closest, changes, saves, debounceRuns>>

\* what #wsjfResult holds before the first score is shown: the text of the
\* page template, a number or not
InitialTexts == {NaN, 0}

NoProbe == [argument |-> 0, result |-> 0]

\* getClosestFibonacci(v), called on its own
ProbeClosest(v) ==
    /\ UNCHANGED notWsjf
    /\ v \in (-MaxProbe)..MaxProbe
    /\ closest' = [argument |-> v, result |-> GetClosestFibonacci(v)]
    /\ UNCHANGED <<values, precision, calcVars, timerVars, wsjfResult,
                   historyVars, destroyed, changes>>

\* a new WSJFCalculator on the same page and storageKey (the page is loaded
\* again), configured with maxHistory n
ConstructCalculator(n, text) ==
    /\ UNCHANGED notWsjf
    /\ n \in 1..MaxHistory
    /\ text \in InitialTexts
    /\ changes < MaxChanges
    /\ changes' = changes + 1
    /\ values' = DefaultValues
    /\ history' = LoadHistory(historyStore)
    /\ maxHistory' = n
    /\ destroyed' = FALSE
    /\ debounceTimers' = 0
    /\ debounceRuns' = 0
    /\ wsjfResult' = text
    /\ wsjfError' = FALSE
    /\ result' = [score |-> Score(DefaultValues, precision),
                  values |-> DefaultValues]
    /\ onCalculate' = [score |-> Score(DefaultValues, precision),
                       values |-> DefaultValues]
    /\ displayTimers' = <<Score(DefaultValues, precision)>>
    /\ UNCHANGED <<precision, historyStore, closest, saves>>

\* the calculator after construction on an empty storage: init() ends with
\* calculateWSJF(), whose score is shown 150 ms later
WsjfStart(digits) ==
    /\ values = DefaultValues
    /\ precision = digits
    /\ result = [score |-> Score(DefaultValues, digits), values |-> DefaultValues]
    /\ onCalculate = [score |-> Score(DefaultValues, digits),
                      values |-> DefaultValues]
    /\ debounceTimers = 0
    /\ displayTimers = <<Score(DefaultValues, digits)>>
    /\ history = <<>>
    /\ historyStore = [present |-> FALSE, entries |-> <<>>]
    /\ destroyed = FALSE
    /\ wsjfError = FALSE
    /\ closest = NoProbe
    /\ changes = 0
    /\ saves = 0
    /\ debounceRuns = 0

WsjfIdle == WsjfStart(1) /\ wsjfResult = NaN /\ maxHistory = 1

(***************************************************************************)
(* TabManager (tab_manager_js.js)                                          *)
(***************************************************************************)
NoTab == -1
Tabs == 0..(NumTabs - 1)

\* the indices of config.tabs, which are those of the buttons and panels
TabIndices == 0..(Len(configTabs) - 1)

\* updateTabUI(index): of the buttons and panels, exactly those at index
\* are active
UpdateTabUI(index) ==
    /\ activeButtons' = {index} \cap TabIndices
    /\ activePanels' = {index} \cap TabIndices

\* activateTab(index)
ActivateTab(index) ==
    /\ UNCHANGED notTabs
    /\ index \in 0..MaxTabCount
    /\ IF index \notin TabIndices
       THEN \* 'Invalid tab index'
            UNCHANGED tabVars
       ELSE /\ lastActivated' = index
            /\ tabOp' = "activateTab"
            /\ UNCHANGED <<tabFailed, tabsError, configTabs>>
            /\ IF index \in loadedTabs
               THEN /\ UpdateTabUI(index)
                    /\ activeTab' = index
                    /\ tabsLoading' = FALSE
                    /\ UNCHANGED <<loadedTabs, tabPending>>
               ELSE \* showTabLoading(); await loadTabContent(index)
                    /\ Len(tabPending) < MaxTabPending
                    /\ tabPending' = Append(tabPending, index)
                    /\ tabsLoading' = TRUE
                    /\ UNCHANGED <<activeTab, activeButtons, activePanels,
                                   loadedTabs>>

\* loadTabContent of the k-th waiting activation succeeds
TabLoadSucceeds(k) ==
    /\ UNCHANGED notTabs
    /\ k \in 1..Len(tabPending)
    /\ loadedTabs' = loadedTabs \cup {tabPending[k]}
    /\ UpdateTabUI(tabPending[k])
    /\ activeTab' = tabPending[k]
    /\ tabsLoading' = FALSE
    /\ tabPending' = RemoveAt(tabPending, k)
    /\ UNCHANGED <<tabsError, lastActivated, tabFailed, configTabs, tabOp>>

\* loadTabContent of the k-th waiting activation throws
TabLoadFails(k) ==
    /\ UNCHANGED notTabs
    /\ k \in 1..Len(tabPending)
    /\ tabsError' = TRUE
    /\ tabsLoading' = FALSE
    /\ tabPending' = RemoveAt(tabPending, k)
    /\ tabFailed' = TRUE
    /\ UNCHANGED <<activeTab, activeButtons, activePanels, loadedTabs,
                   lastActivated, configTabs, tabOp>>

\* the tabs after construction with lazy loading, 'inline' being the tabs
\* configured with content: createTabContent marks those as loaded, and
\* init() activates no tab because this.tabs is never filled
TabsStart(inline) ==
    /\ loadedTabs = inline
    /\ activeTab = NoTab
    /\ activeButtons = {}
    /\ activePanels = {}
    /\ tabPending = <<>>
    /\ tabsLoading = FALSE
    /\ tabsError = FALSE
    /\ lastActivated = NoTab
    /\ tabFailed = FALSE
    /\ configTabs = [i \in 1..NumTabs |->
                        IF i - 1 \in inline THEN "content" ELSE "url"]
    /\ tabOp = "none"

TabsIdle == TabsStart(Tabs)

\* splice(k - 1, 0, x) on a sequence
InsertAt(q, k, x) == SubSeq(q, 1, k - 1) \o <<x>> \o SubSeq(q, k, Len(q))

\* createTabContent with lazy loading: the tabs that carry content are
\* marked as loaded under their present index
ContentIndices(ts) == {i \in 0..(Len(ts) - 1) : ts[i + 1] = "content"}

TabKinds == {"content", "url"}

\* addTab(tab, index): splice the tab in, then setupTabs() builds every
\* button and panel anew, none of them active
AddTab(kind, index) ==
    /\ UNCHANGED notTabs
    /\ Len(configTabs) < MaxTabCount
    /\ index \in 0..Len(configTabs)
    /\ configTabs' = InsertAt(configTabs, index + 1, kind)
    /\ loadedTabs' = loadedTabs \cup ContentIndices(configTabs')
    /\ activeButtons' = {}
    /\ activePanels' = {}
    /\ tabOp' = "addTab"
    /\ UNCHANGED <<activeTab, tabPending, tabsLoading, tabsError,
                   lastActivated, tabFailed>>

\* removeTab(index): splice the tab out, forget that index was loaded,
\* setupTabs(), and if index was the active tab activateTab(max(0, index-1))
RemoveTab(index) ==
    /\ UNCHANGED notTabs
    /\ index \in 0..MaxTabCount
    /\ IF index \notin TabIndices
       THEN UNCHANGED tabVars
       ELSE LET remaining == RemoveAt(configTabs, index + 1)
                loaded == (loadedTabs \ {index}) \cup ContentIndices(remaining)
                newIndex == IF index - 1 > 0 THEN index - 1 ELSE 0
            IN  /\ configTabs' = remaining
                /\ loadedTabs' = loaded
                /\ tabOp' = "removeTab"
                /\ UNCHANGED <<tabsError, tabFailed>>
                /\ IF activeTab = index /\ newIndex < Len(remaining)
                   THEN /\ lastActivated' = newIndex
                        /\ IF newIndex \in loaded
                           THEN /\ activeButtons' = {newIndex}
                                /\ activePanels' = {newIndex}
                                /\ activeTab' = newIndex
                                /\ tabsLoading' = FALSE
                                /\ UNCHANGED tabPending
                           ELSE /\ Len(tabPending) < MaxTabPending
                                /\ tabPending' = Append(tabPending, newIndex)
                                /\ tabsLoading' = TRUE
                                /\ activeButtons' = {}
                                /\ activePanels' = {}
                                /\ UNCHANGED activeTab
                   ELSE /\ activeButtons' = {}
                        /\ activePanels' = {}
                        /\ UNCHANGED <<activeTab, tabPending, tabsLoading,
                                       lastActivated>>

(***************************************************************************)
(* TabManager of a tabs container (unnamed/part_007)                       *)
(***************************************************************************)
\* a content panel as setupTabs leaves it
Hidden == [display |-> "none", opacity |-> 1]

\* fadeOut(element), its 300 ms timer apart
FadeOut(c, p) == [c EXCEPT ![p].opacity = 0]

\* fadeIn(element), its 10 ms timer apart
FadeIn(c, p) == [c EXCEPT ![p] = [display |-> "block", opacity |-> 0]]

\* showTabContent(index, previousIndex): the panels after the call, first
\* the previous panel, then the new one
ShowTabContent(c, fade, index, previousIndex) ==
    IF fade
    THEN FadeIn(FadeOut(c, previousIndex), index)
    ELSE [[c EXCEPT ![previousIndex].display = "none"]
             EXCEPT ![index].display = "block"]

\* the end of activateTab: updateTabUI(index), showTabContent(index,
\* previousIndex) and the two timers the fades start
FinishActivation(index, previousIndex) ==
    /\ selectedTab' = index
    /\ contents' = ShowTabContent(contents, fadeTransition, index, previousIndex)
    /\ IF fadeTransition
       THEN /\ Len(fadeOuts) < MaxFades
            /\ Len(fadeIns) < MaxFades
            /\ fadeOuts' = Append(fadeOuts, previousIndex)
            /\ fadeIns' = Append(fadeIns, index)
       ELSE UNCHANGED <<fadeIns, fadeOuts>>
    /\ shown' = TRUE

\* the start of activateTab for a panel that must be fetched:
\* showLoadingState replaces the panel's content, then the fetch is awaited
AwaitContent(index) ==
    /\ Len(activations) < MaxActivations
    /\ activeIndex' = index
    /\ activations' = Append(activations,
                             [index |-> index, previousIndex |-> activeIndex])
    /\ contentError' = contentError \ {index}
    /\ UNCHANGED <<selectedTab, contents, dataSrc, fadeTransition, fadeIns,
                   fadeOuts, shown>>

\* activateTab(index): a click on a tab button, Enter on it, or a call.
\* A panel that is loaded or has its content in the DOM is shown before any
\* other event can run; a panel with data-src waits for its fetch.
ContainerActivateTab(index) ==
    /\ UNCHANGED notContainer
    /\ index \in 0..NumTabs
    /\ IF index \notin Tabs
       THEN \* 'Invalid tab index'
            UNCHANGED containerVars
       ELSE IF index \in loadedPanels \/ index \notin dataSrc
            THEN /\ activeIndex' = index
                 /\ loadedPanels' = loadedPanels \cup {index}
                 /\ FinishActivation(index, activeIndex)
                 /\ UNCHANGED <<dataSrc, fadeTransition, activations,
                                contentError>>
            ELSE /\ AwaitContent(index)
                 /\ UNCHANGED loadedPanels

\* the fetch of the k-th waiting activation delivers the content
ContainerLoadSucceeds(k) ==
    /\ UNCHANGED notContainer
    /\ k \in 1..Len(activations)
    /\ loadedPanels' = loadedPanels \cup {activations[k].index}
    /\ contentError' = contentError \ {activations[k].index}
    /\ FinishActivation(activations[k].index, activations[k].previousIndex)
    /\ activations' = RemoveAt(activations, k)
    /\ UNCHANGED <<activeIndex, dataSrc, fadeTransition>>

\* the fetch of the k-th waiting activation fails: showTabError
ContainerLoadFails(k) ==
    /\ UNCHANGED notContainer
    /\ k \in 1..Len(activations)
    /\ contentError' = contentError \cup {activations[k].index}
    /\ activations' = RemoveAt(activations, k)
    /\ UNCHANGED <<activeIndex, selectedTab, contents, loadedPanels, dataSrc,
                   fadeTransition, fadeIns, fadeOuts, shown>>

\* a click on the retry button of the error content of panel index
RetryClick(index) ==
    /\ UNCHANGED notContainer
    /\ index \in contentError
    /\ loadedPanels' = loadedPanels \ {index}
    /\ AwaitContent(index)

\* clearCache(): the cache holds what the loaded data-src panels fetched, so
\* this.loadedTabs stands for both
ContainerClearCache ==
    /\ UNCHANGED notContainer
    /\ loadedPanels # {}
    /\ loadedPanels' = {}
    /\ UNCHANGED <<activeIndex, selectedTab, contents, dataSrc, fadeTransition,
                   activations, fadeIns, fadeOuts, contentError, shown>>

\* the oldest 10 ms timer of fadeIn fires
FadeInFires ==
    /\ UNCHANGED notContainer
    /\ fadeIns # <<>>
    /\ contents' = [contents EXCEPT ![Head(fadeIns)].opacity = 1]
    /\ fadeIns' = Tail(fadeIns)
    /\ UNCHANGED <<activeIndex, selectedTab, loadedPanels, dataSrc,
                   fadeTransition, activations, fadeOuts, contentError, shown>>

\* the oldest 300 ms timer of fadeOut fires
FadeOutFires ==
    /\ UNCHANGED notContainer
    /\ fadeOuts # <<>>
    /\ contents' = [contents EXCEPT ![Head(fadeOuts)].display = "none"]
    /\ fadeOuts' = Tail(fadeOuts)
    /\ UNCHANGED <<activeIndex, selectedTab, loadedPanels, dataSrc,
                   fadeTransition, activations, fadeIns, contentError, shown>>

\* the container after new TabManager(container, {activeIndex: index,
\* fadeTransition: fade}), src being the panels with a data-src attribute:
\* setupTabs hides every panel and init() runs activateTab(index)
ContainerStart(src, fade, index) ==
    /\ dataSrc = src
    /\ fadeTransition = fade
    /\ activeIndex = index
    /\ contentError = {}
    /\ IF index \in src
       THEN /\ activations = <<[index |-> index, previousIndex |-> index]>>
            /\ selectedTab = NoTab
            /\ contents = [p \in Tabs |-> Hidden]
            /\ loadedPanels = {}
            /\ fadeIns = <<>>
            /\ fadeOuts = <<>>
            /\ shown = FALSE
       ELSE /\ activations = <<>>
            /\ selectedTab = index
            /\ contents = ShowTabContent([p \in Tabs |-> Hidden], fade, index,
                                         index)
            /\ loadedPanels = {index}
            /\ fadeIns = IF fade THEN <<index>> ELSE <<>>
            /\ fadeOuts = IF fade THEN <<index>> ELSE <<>>
            /\ shown = TRUE

ContainerIdle == ContainerStart({}, TRUE, 0)

(***************************************************************************)
(* Tab switching on the page: TabManager.switchTab (tabs.js),              *)
(* ScrumTabManager.switchTab (unnamed/part_006), ScrumGuideApp.showTab     *)
(* (main.js).  The page is not part of the sources: a page is a number of  *)
(* .example-container elements, each with its tab buttons and its          *)
(* .tab-content elements, <<c, k>> being the k-th of container c.          *)
(***************************************************************************)
NoName == 0
Containers == 1..NumContainers
Elements == Containers \X (1..NumSlots)

\* container.querySelectorAll(...) on a set of buttons or contents
InContainer(set, c) == {e \in set : e[1] = c}

\* classList.remove('active') on every element of container c
Deactivated(set, c) == {e \in set : e[1] # c}

\* document order
Before(e, f) == e[1] < f[1] \/ (e[1] = f[1] /\ e[2] < f[2])

\* what querySelector and getElementById return of the matching elements:
\* the first in document order, nothing when none matches
FirstOf(set) ==
    IF set = {} THEN {}
    ELSE {CHOOSE e \in set : \A f \in set \ {e} : Before(e, f)}

\* document.getElementById(name)
GetElementById(name) == FirstOf({e \in Elements : contentId[e] = name})

\* the part the two switchTab share: in the container of the button every
\* button and content loses 'active', the button gets it back, and so does
\* the element document.getElementById finds for its data-tab
SwitchedTo(b) ==
    /\ buttonActive' = Deactivated(buttonActive, b[1]) \cup {b}
    /\ buttonSelected' = Deactivated(buttonSelected, b[1]) \cup {b}
    /\ contentActive' = Deactivated(contentActive, b[1])
                            \cup GetElementById(dataTab[b])
    /\ UNCHANGED <<dataTab, contentId>>

\* TabManager.switchTab(clickedButton) of tabs.js
SwitchTab(b) ==
    /\ UNCHANGED notPage
    /\ b \in Elements
    /\ IF dataTab[b] = NoName
       THEN UNCHANGED pageVars
       ELSE /\ SwitchedTo(b)
            /\ UNCHANGED scrumActiveTab

\* ScrumTabManager.switchTab(clickedButton) of unnamed/part_006
ScrumSwitchTab(b) ==
    /\ UNCHANGED notPage
    /\ b \in Elements
    /\ IF dataTab[b] = NoName
       THEN UNCHANGED pageVars
       ELSE /\ SwitchedTo(b)
            /\ scrumActiveTab' = dataTab[b]

\* the click listener of ScrumGuideApp.setupTabs on button b:
\* showTab(data-tab of b, container of b), which looks both the content and
\* the button up inside the container and leaves aria-selected alone
ShowTab(b) ==
    /\ UNCHANGED notPage
    /\ b \in Elements
    /\ contentActive' = Deactivated(contentActive, b[1]) \cup
           FirstOf({e \in InContainer(Elements, b[1]) :
                        contentId[e] = dataTab[b]})
    /\ buttonActive' = Deactivated(buttonActive, b[1]) \cup
           FirstOf({x \in InContainer(Elements, b[1]) :
                        dataTab[x] # NoName /\ dataTab[x] = dataTab[b]})
    /\ UNCHANGED <<dataTab, contentId, buttonSelected, scrumActiveTab>>

\* pages: every content has its own id; the containers use the same ids;
\* the last button of the first container has no data-tab
OwnIds == [e \in Elements |-> (e[1] - 1) * NumSlots + e[2]]
SameIds == [e \in Elements |-> e[2]]
Layouts ==
    { [dataTab |-> OwnIds, contentId |-> OwnIds],
      [dataTab |-> SameIds, contentId |-> SameIds],
      [dataTab |-> [OwnIds EXCEPT ![<<1, NumSlots>>] = NoName],
       contentId |-> OwnIds] }

\* the page as loaded: the first tab of every container is the active one
PageStart(layout) ==
    /\ dataTab = layout.dataTab
    /\ contentId = layout.contentId
    /\ buttonActive = {e \in Elements : e[2] = 1}
    /\ buttonSelected = {e \in Elements : e[2] = 1}
    /\ contentActive = {e \in Elements : e[2] = 1}
    /\ scrumActiveTab = NoName

PageIdle == PageStart([dataTab |-> OwnIds, contentId |-> OwnIds])

(***************************************************************************)
(* The static sprint board (sprint_board.js), its cards also carrying the  *)
(* drag listeners of AnimationManager.setupInteractiveElements             *)
(* (assets/data/sections.js).  The page is not part of the sources: the    *)
(* order of the two script tags decides whose listeners run first.         *)
(***************************************************************************)
Cards == 1..NumCards
Removed == "removed"

\* data-story-points of the cards; the first card has no such attribute
CardPoints == [c \in Cards |-> IF c = 1 THEN NaN ELSE c + 1]

\* parseInt(card.dataset.storyPoints) || 0
PointsOf(c) == IF CardPoints[c] = NaN THEN 0 ELSE CardPoints[c]

\* the sum of PointsOf over a set of cards
RECURSIVE PointsSum(_)
PointsSum(set) ==
    IF set = {} THEN 0
    ELSE LET c == CHOOSE x \in set : TRUE
         IN  PointsOf(c) + PointsSum(set \ {c})

\* document.querySelectorAll('.task-card')
CardsOnBoard(col) == {c \in Cards : col[c] # Removed}

\* document.querySelectorAll('[data-column="done"] .task-card')
CardsDone(col) == {c \in Cards : col[c] = "done"}

\* updateSprintProgress(): the three numbers it writes
UpdateSprintProgress(col) ==
    LET totalSP == PointsSum(CardsOnBoard(col))
        completedSP == PointsSum(CardsDone(col))
    IN  [totalSP |-> totalSP,
         completedSP |-> completedSP,
         percentage |-> IF totalSP > 0 THEN RoundPct(completedSP, totalSP)
                        ELSE 0]

\* no drag is in progress
NoTransfer == [card |-> 0, text |-> "none", source |-> "none", dropped |-> FALSE]

ListenerOrders == {"board-first", "animation-first", "board-only"}

\* dragstart on card c, every listener of the card in registration order:
\* handleDragStart stores the card's outerHTML under text/plain and its
\* column under source-column, AnimationManager's listener stores '' under
\* text/plain; the later setData wins
StaticDragStart(c) ==
    /\ UNCHANGED notStatic
    /\ dataTransfer = NoTransfer
    /\ c \in CardsOnBoard(cardColumn)
    /\ dataTransfer' =
           [card |-> c,
            text |-> IF c \in animated /\ listeners = "board-first"
                     THEN "" ELSE "outerHTML",
            source |-> cardColumn[c],
            dropped |-> FALSE]
    /\ cardDragging' = cardDragging \cup {c}
    /\ UNCHANGED <<cardColumn, animated, listeners, progress, dropThrew>>

\* drop on column target, every listener of the column: handleDrop (the
\* drop listener of AnimationManager only resets the background).  With a
\* different source column the dragging card is removed and the card parsed
\* from text/plain is appended with the listeners of sprint_board.js only;
\* for an empty text/plain tempDiv.firstChild is null and
\* newCard.classList throws before anything is appended
StaticDrop(target) ==
    /\ UNCHANGED notStatic
    /\ dataTransfer # NoTransfer
    /\ ~dataTransfer.dropped
    /\ target \in ColumnIds
    /\ dataTransfer' = [dataTransfer EXCEPT !.dropped = TRUE]
    /\ UNCHANGED listeners
    /\ IF dataTransfer.source = target
       THEN UNCHANGED <<cardColumn, cardDragging, animated, progress,
                        dropThrew>>
       ELSE /\ cardDragging' = cardDragging \ {dataTransfer.card}
            /\ IF dataTransfer.text = "outerHTML"
               THEN /\ cardColumn' =
                           [cardColumn EXCEPT ![dataTransfer.card] = target]
                    /\ animated' = animated \ {dataTransfer.card}
                    /\ progress' = UpdateSprintProgress(cardColumn')
                    /\ dropThrew' = FALSE
               ELSE /\ cardColumn' =
                           [cardColumn EXCEPT ![dataTransfer.card] = Removed]
                    /\ dropThrew' = TRUE
                    /\ UNCHANGED <<animated, progress>>

\* dragend, after the drop or after a drag that was given up
StaticDragEnd ==
    /\ UNCHANGED notStatic
    /\ dataTransfer # NoTransfer
    /\ cardDragging' = cardDragging \ {dataTransfer.card}
    /\ dataTransfer' = NoTransfer
    /\ UNCHANGED <<cardColumn, animated, listeners, progress, dropThrew>>

\* the board after DOMContentLoaded: setupSprintBoard has shown the
\* progress of the cards as the page places them
StaticStart(col, order) ==
    /\ cardColumn = col
    /\ listeners = order
    /\ animated = IF order = "board-only" THEN {} ELSE Cards
    /\ cardDragging = {}
    /\ dataTransfer = NoTransfer
    /\ progress = UpdateSprintProgress(col)
    /\ dropThrew = FALSE

StaticIdle == StaticStart([c \in Cards |-> "backlog"], "board-only")

BoardIdle == BoardInit /\ maxTasksPerColumn = NoLimit

InitCalc ==
    /\ BoardIdle /\ LoaderIdle /\ TabsIdle /\ ContainerIdle /\ PageIdle /\ StaticIdle
    /\ \E digits \in 1..MaxPrecision : WsjfStart(digits)
    /\ wsjfResult = NaN
    /\ maxHistory = 1

\* calculations through the public API, each called once the score of the
\* one before is on display
NextCalc ==
    \/ displayTimers = <<>> /\ CalculateWSJF
    \/ \E key \in Parameters, raw \in 0..MaxRaw :
          displayTimers = <<>> /\ SetValues(key, raw)
    \/ DisplayTimerFires

SpecCalc == InitCalc /\ [][NextCalc]_vars

\* the calculator in use: sliders, markers, timers, history
InitWsjf ==
    /\ BoardIdle /\ LoaderIdle /\ TabsIdle /\ ContainerIdle /\ PageIdle /\ StaticIdle
    /\ WsjfStart(1)
    /\ wsjfResult \in InitialTexts
    /\ maxHistory \in 1..MaxHistory

\* the sliders the model moves, and what they are moved to
SliderKeys == {"businessValue", "effort"}
SliderRaw == {0, 4}
MarkerInputs == {13}

NextWsjf ==
    \/ \E key \in SliderKeys, raw \in SliderRaw : HandleSliderChange(key, raw)
    \/ \E key \in SliderKeys, mark \in MarkerInputs : MarkerClick(key, mark)
    \/ DebounceFires
    \/ DisplayTimerFires
    \/ changes < MaxChanges /\ SetValues("effort", 17)
    \/ ResetValues
    \/ SaveCalculation
    \/ ClearHistory
    \/ \E k \in 1..MaxHistory : LoadCalculation(k)
    \/ Destroy
    \/ \E n \in 1..MaxHistory, text \in InitialTexts : ConstructCalculator(n, text)

SpecWsjf == InitWsjf /\ [][NextWsjf]_vars

\* getClosestFibonacci on its own
InitClosest ==
    /\ BoardIdle /\ LoaderIdle /\ TabsIdle /\ WsjfIdle /\ ContainerIdle /\ PageIdle /\ StaticIdle

NextClosest ==
    \/ \E v \in (-MaxProbe)..MaxProbe : ProbeClosest(v)
    \/ DisplayTimerFires

SpecClosest == InitClosest /\ [][NextClosest]_vars

InitTabs ==
    /\ BoardIdle /\ LoaderIdle /\ WsjfIdle /\ ContainerIdle /\ PageIdle /\ StaticIdle
    /\ \E inline \in SUBSET Tabs : TabsStart(inline)

NextTabs ==
    \/ \E i \in 0..NumTabs : ActivateTab(i)
    \/ \E k \in 1..MaxTabPending : TabLoadSucceeds(k)
    \/ \E k \in 1..MaxTabPending : TabLoadFails(k)

SpecTabs == InitTabs /\ [][NextTabs]_vars

\* the component TabManager with its tabs added and removed at run time
NextTabEdits ==
    \/ \E i \in 0..MaxTabCount : ActivateTab(i)
    \/ \E k \in 1..MaxTabPending : TabLoadSucceeds(k)
    \/ \E k \in 1..MaxTabPending : TabLoadFails(k)
    \/ \E kind \in TabKinds, i \in 0..MaxTabCount : AddTab(kind, i)
    \/ \E i \in 0..MaxTabCount : RemoveTab(i)

SpecTabEdits == InitTabs /\ [][NextTabEdits]_vars

InitLoader ==
    /\ BoardIdle /\ WsjfIdle /\ TabsIdle /\ ContainerIdle /\ PageIdle /\ StaticIdle
    /\ \E f \in [Sections -> Contents] : LoaderStart(f)

NextLoader ==
    \/ \E s \in Sections : NavClick(s)
    \/ \E s \in Sections : LoadSection(s)
    \/ \E k \in 1..MaxPending : FetchSucceeds(k)
    \/ \E k \in 1..MaxPending : FetchFails(k)
    \/ ClearCache

SpecLoader == InitLoader /\ [][NextLoader]_vars

\* navigation by clicks alone
NextNav ==
    \/ \E s \in Sections : NavClick(s)
    \/ \E k \in 1..MaxPending : FetchSucceeds(k)
    \/ \E k \in 1..MaxPending : FetchFails(k)

SpecNav == InitLoader /\ [][NextNav]_vars

\* the container TabManager: activations, fetches and fade timers;
\* either every panel is in the DOM or the first two have a data-src
SrcChoices == {{}, {0, 1}}

InitContainer ==
    /\ BoardIdle /\ LoaderIdle /\ WsjfIdle /\ TabsIdle /\ PageIdle /\ StaticIdle
    /\ \E src \in SrcChoices, fade \in BOOLEAN : ContainerStart(src, fade, 0)

NextContainer ==
    \/ \E i \in 0..NumTabs : ContainerActivateTab(i)
    \/ \E k \in 1..MaxActivations : ContainerLoadSucceeds(k)
    \/ \E k \in 1..MaxActivations : ContainerLoadFails(k)
    \/ \E i \in Tabs : RetryClick(i)
    \/ ContainerClearCache
    \/ FadeInFires
    \/ FadeOutFires

SpecContainer == InitContainer /\ [][NextContainer]_vars

\* tab switching on the page
InitPage ==
    /\ BoardIdle /\ LoaderIdle /\ WsjfIdle /\ TabsIdle /\ ContainerIdle
    /\ StaticIdle
    /\ \E layout \in Layouts : PageStart(layout)

NextPage ==
    \/ \E b \in Elements : SwitchTab(b)
    \/ \E b \in Elements : ScrumSwitchTab(b)
    \/ \E b \in Elements : ShowTab(b)

SpecPage == InitPage /\ [][NextPage]_vars

\* the static sprint board
InitStatic ==
    /\ BoardIdle /\ LoaderIdle /\ WsjfIdle /\ TabsIdle /\ ContainerIdle
    /\ PageIdle
    /\ \E col \in [Cards -> ColumnIds], order \in ListenerOrders :
           StaticStart(col, order)

NextStatic ==
    \/ \E c \in Cards : StaticDragStart(c)
    \/ \E target \in ColumnIds : StaticDrop(target)
    \/ StaticDragEnd

SpecStatic == InitStatic /\ [][NextStatic]_vars

InitBoard == BoardInit /\ LoaderIdle /\ WsjfIdle /\ TabsIdle /\ ContainerIdle /\ PageIdle /\ StaticIdle

SpecBoard == InitBoard /\ [][NextBoard]_vars

\* the task form, with deletions behind its back
NextForm ==
    \/ \E id \in {NoTask} \cup (1..nextId) : ShowTaskModal(id)
    \/ HideTaskModal
    \/ HideTimerFires
    \/ \E t \in TitleInputs, sp \in FormSPInputs : HandleTaskSubmit(t, sp)
    \/ \E id \in TaskIdInputs : DeleteTask(id)

SpecForm == InitBoard /\ [][NextForm]_vars

\* task ids the modals are opened for: NoTask is a creation
ModalTaskInputs == {NoTask, 1, 2}

\* the task modal and the detail modal with their timers
NextModal ==
    \/ \E id \in ModalTaskInputs : ShowTaskModal(id)
    \/ HideTaskModal
    \/ HideTimerFires
    \/ \E sp \in {1, 22} : HandleTaskSubmit("Tarea", sp)
    \/ \E id \in ModalTaskInputs \ {NoTask} : ShowTaskDetail(id)
    \/ HideTaskDetailModal
    \/ DetailTimerFires
    \/ EditCurrentTask
    \/ EditTimerFires

SpecModal == InitBoard /\ [][NextModal]_vars


(***************************************************************************)
(* SprintBoard: properties                                                 *)
(***************************************************************************)

\* C1 as stated: after any sequence of createTask, updateTask, deleteTask,
\* drop moves, moveTask and resetBoard, the stored entry holds exactly the
\* current task list and a board constructed on it starts with that list.
C1_StoredListIsCurrentList ==
    acted # "none" =>
        /\ storage.present
        /\ storage.tasks = tasks
        /\ LoadData(storage, nextId) = tasks

\* C1 as amended: once one of these operations has changed the list (and so
\* saved it), the stored entry is the JSON serialisation of the current list
\* (a NaN story-points value written as null), and a board constructed on it
\* starts with that serialised list: same ids, statuses and order.
C1_StoredListIsSerialisedList ==
    /\ acted = "effect" => storage.present
    /\ storage.present =>
        /\ storage.tasks = JsonStringify(tasks)
        /\ LoadData(storage, nextId) = JsonStringify(tasks)
        /\ \A i \in 1..Len(tasks) :
              /\ storage.tasks[i].id = tasks[i].id
              /\ storage.tasks[i].status = tasks[i].status
              /\ tasks[i].sp # NaN => storage.tasks[i].sp = tasks[i].sp

\* C1 witness: a list holding a task in 'done' whose story points are NaN
\* has been saved, the story points stored as null.
C1_Witness ==
    /\ acted = "effect"
    /\ storage.present
    /\ \E i \in 1..Len(tasks) :
          /\ tasks[i].sp = NaN
          /\ tasks[i].status = "done"
          /\ storage.tasks[i].sp = Null
          /\ storage.tasks[i].status = "done"

C8_MetricsAreSums ==
    /\ metrics.totalSP # NaN
    /\ metrics.completedSP # NaN
    /\ 0 <= metrics.completedSP
    /\ metrics.completedSP <= metrics.totalSP
    /\ 0 <= metrics.progressPercentage
    /\ metrics.progressPercentage <= 100
    /\ metrics.progressPercentage =
          IF metrics.totalSP = 0 THEN 0
          ELSE (200 * metrics.completedSP + metrics.totalSP)
                  \div (2 * metrics.totalSP)

\* C9 as stated: with maxTasksPerColumn configured, no column ever holds
\* more than maxTasksPerColumn tasks.
C9_NoColumnAboveLimit ==
    maxTasksPerColumn # NoLimit =>
        \A c \in ColumnIds : Len(TasksInColumn(tasks, c)) <= maxTasksPerColumn

\* a form input handleTaskSubmit is meant to accept
ValidFormInput(title, sp) == Trim(title) # "" /\ sp \in 1..21

\* C10 as stated: handleTaskSubmit creates or updates a task only for a
\* non-empty trimmed title and story points in 1..21; for every other
\* input it leaves the task list, the metrics and the storage unchanged and
\* does not close the modal.
C10_InvalidInputChangesNothing ==
    [][\A t \in TitleInputs, sp \in FormSPInputs :
        (HandleTaskSubmit(t, sp) /\ ~ValidFormInput(t, sp)) =>
            /\ tasks' = tasks
            /\ metrics' = metrics
            /\ storage' = storage
            /\ hideTimers' = hideTimers]_vars

\* C11 as stated: every task's status is the id of a configured column, so
\* every task is rendered in a column and the column counters add up to the
\* number of tasks.
C11_StatusIsAColumn ==
    /\ \A i \in 1..Len(tasks) : tasks[i].status \in ColumnIds
    /\ Cardinality(Rendered(tasks)) = Len(tasks)
    /\ CounterSum(tasks, Len(Columns)) = Len(tasks)

\* C12 as stated: once showTaskModal has opened the task modal, and until
\* the user cancels, closes or successfully submits it, the modal stays
\* visible and editingTask keeps the value it was opened with, whatever
\* 300 ms timers of earlier calls fire in between.
C12_OpenModalStaysOpen ==
    opened.open => /\ modalDisplay = "flex"
                   /\ editingTask = opened.id


(***************************************************************************)
(* ContentLoader: properties                                               *)
(***************************************************************************)

\* C3 as stated: once every started load has finished (none of them
\* failed), the rendered section, currentSection and the active nav link
\* are those of the most recent click.
C3_LastClickWins ==
    (pending = <<>> /\ lastClick # NoSection /\ ~failed) =>
        /\ mainContent = RenderedSection(lastClick, files[lastClick])
        /\ currentSection = lastClick
        /\ activeLink = lastClick

\* C5 as stated: a loadSection of a section whose content is in the cache
\* (fetched successfully, not cleared since) issues no fetch and renders
\* the content that was fetched.
C5_CachedSectionIsNotFetched ==
    [][\A s \in Sections :
        (LoadSection(s) /\ cache[s].has) =>
            /\ pending' = pending
            /\ mainContent' = RenderedSection(s, cache[s].content)]_vars

C4_ScoreIsRoundedQuotient ==
    LET n == values.businessValue + values.urgency + values.riskReduction IN
    /\ result.values = values
    /\ 2 * Abs(result.score * values.effort - n * 10 ^ precision)
          <= values.effort
    /\ onCalculate.score = result.score
    /\ onCalculate.values = values

\* C4 witness: 5 + 3 + 2 over 8 is 1.25, reported as 1.3 with one decimal.
C4_Witness ==
    /\ precision = 1
    /\ values = [businessValue |-> 5, urgency |-> 3, riskReduction |-> 2,
                 effort |-> 8]
    /\ result.score = 13
    /\ onCalculate.score = 13

\* C7 as stated: once every activation has settled (no load failed),
\* activeTab and the single active button and panel are those of the last
\* activateTab call.
C7_LastActivationWins ==
    (tabPending = <<>> /\ ~tabFailed /\ lastActivated # NoTab) =>
        /\ activeTab = lastActivated
        /\ activeButtons = {lastActivated}
        /\ activePanels = {lastActivated}

\* C13 as stated: every entry of the history is self-consistent: its wsjf
\* is the score of the values stored in the same entry, rounded to the
\* configured precision.
C13_HistoryEntriesConsistent ==
    \A i \in 1..Len(history) :
        history[i].wsjf = Score(history[i].values, precision)

\* C14: each of the four values is a member of the Fibonacci scale, effort
\* is never 0 and calculateWSJF has never shown its error.
C14_ValuesAreInScale ==
    /\ \A key \in Parameters : values[key] \in ScaleMembers
    /\ values.effort # 0
    /\ ~wsjfError

\* C14 witness: the effort slider was moved to 0 and the business-value
\* slider to 4; the values stored are 1 and 3.
C14_Witness ==
    /\ changes = 2
    /\ values.effort = 1
    /\ values.businessValue = 3
    /\ debounceTimers = 1

\* C15 as stated: at most one debounce timer is pending, the timer runs
\* calculateWSJF at most once for a burst of slider changes and with the
\* values of the last change, and after destroy no debounce timer fires.
C15_DebounceRunsOncePerBurst ==
    [][/\ debounceTimers' <= 1
       /\ debounceRuns' <= 1
       /\ DebounceFires => /\ result'.values = values
                           /\ ~destroyed]_vars

\* C16 as stated: history never holds more than maxHistory entries, it is
\* ordered newest first, and (while the component lives) what is persisted
\* is the serialisation of the in-memory history.
C16_HistoryIsBounded ==
    /\ Len(history) <= maxHistory
    /\ \A i \in 1..(Len(history) - 1) : history[i].id > history[i + 1].id
    /\ (~destroyed /\ historyStore.present) =>
          historyStore.entries = StringifyHistory(history)

\* C17: getClosestFibonacci(v) is a member of the scale, no member is
\* closer to v, and of two members equally close it is the smaller one.
C17_ClosestIsNearestSmallest ==
    closest # NoProbe =>
        /\ closest.result = GetClosestFibonacci(closest.argument)
        /\ closest.result \in ScaleMembers
        /\ \A m \in ScaleMembers :
              /\ Abs(closest.result - closest.argument) <= Abs(m - closest.argument)
              /\ Abs(closest.result - closest.argument) = Abs(m - closest.argument)
                    => closest.result <= m

\* C17 witness: 17 is as far from 13 as from 21, and 13 is returned.
C17_Witness ==
    /\ closest.argument = 17
    /\ closest.result = 13

\* are all activations, fetches and fade timers of the container done
ContainerSettled ==
    activations = <<>> /\ fadeIns = <<>> /\ fadeOuts = <<>>

\* C18 as stated: once an activation of the container TabManager has
\* completed and every fade timer has fired, the content panel at
\* activeIndex is displayed and every other panel is hidden.
C18_SettledShowsActivePanel ==
    (shown /\ ContainerSettled) =>
        \A p \in Tabs :
            contents[p].display = (IF p = activeIndex THEN "block" ELSE "none")

\* C19 as stated: after activateTab, addTab and removeTab calls that leave
\* at least one tab, once no activation is waiting, activeTab is an index of
\* config.tabs and exactly the button and the panel at activeTab are
\* active.
C19_ActiveTabIsMarked ==
    (tabOp # "none" /\ tabPending = <<>> /\ configTabs # <<>>) =>
        /\ activeTab \in TabIndices
        /\ activeButtons = {activeTab}
        /\ activePanels = {activeTab}

\* C20 as stated: after switchTab(button) for a button with a data-tab
\* value, the button is the one active and selected button of its
\* container, the one active content of the container is the element of
\* that container whose id is the data-tab value, and the active buttons
\* and contents of every other container are unchanged.
C20_SwitchTabStaysInContainer ==
    [][\A b \in Elements :
          ((SwitchTab(b) \/ ScrumSwitchTab(b)) /\ dataTab[b] # NoName) =>
              /\ InContainer(buttonActive', b[1]) = {b}
              /\ InContainer(buttonSelected', b[1]) = {b}
              /\ \E e \in InContainer(Elements, b[1]) :
                     /\ contentId[e] = dataTab[b]
                     /\ InContainer(contentActive', b[1]) = {e}
              /\ Deactivated(buttonActive', b[1]) = Deactivated(buttonActive, b[1])
              /\ Deactivated(contentActive', b[1]) = Deactivated(contentActive, b[1])]_vars

\* C21 as stated: on the static sprint board a drop of a dragged card on a
\* column other than its own leaves the number of cards and the total story
\* points unchanged, puts the card in the target column, and shows as
\* completed story points the sum over the cards in 'done', whichever
\* module's listeners run first.
C21_DropKeepsTheCard ==
    [][\A target \in ColumnIds :
          (StaticDrop(target) /\ dataTransfer.source # target) =>
              /\ Cardinality(CardsOnBoard(cardColumn')) =
                     Cardinality(CardsOnBoard(cardColumn))
              /\ cardColumn'[dataTransfer.card] = target
              /\ PointsSum(CardsOnBoard(cardColumn')) =
                     PointsSum(CardsOnBoard(cardColumn))
              /\ progress'.totalSP = PointsSum(CardsOnBoard(cardColumn'))
              /\ progress'.completedSP = PointsSum(CardsDone(cardColumn'))]_vars

====
